---------------------------- MODULE Spec2Model ----------------------------
(***************************************************************************)
(* rat-race: a terminal typing test (src/src/main.rs).                     *)
(*                                                                         *)
(* The session is the enum State {Start, Running{text,input}, Done, Exit}; *)
(* State::update applies one terminal event to it.  App::run is the host   *)
(* loop: draw, read one event, update, test for Exit.                      *)
(*                                                                         *)
(* Strings are sequences of one-character strings.  A State value is a     *)
(* record [tag, text, input]; the variants without payload carry empty     *)
(* text and input.                                                         *)
(*                                                                         *)
(* Two specifications:                                                     *)
(*   Spec     drives State::update directly, one call per step, from the   *)
(*            default value State::Start.  A call that panics unwinds out  *)
(*            of update and leaves the value as assigned so far; the       *)
(*            value can be handed to update again.                         *)
(*   RunSpec  is main/App::run, statement by statement, with the renderer  *)
(*            and the event source as collaborators that may fail.         *)
(***************************************************************************)
EXTENDS Integers, Sequences, FiniteSets, TLC

VARIABLES
    state,      \* the State value (App.state)
    prev,       \* the State value the last call of update started from
    ev,         \* the event given to the last call of update
    outcome,    \* how that call ended: "none" (not yet), "ok", "panic"
    cause,      \* the macro a panicking call stopped at: "none", "todo",
                \* "unreachable"
    pc,         \* position of main/App::run
    result,     \* what App::run returned: "none", "Ok", "DrawErr", "ReadErr"
    screen,     \* the lines of the last frame drawn
    restored,   \* whether ratatui::restore() has run
    drawn,      \* the State value the last frame was drawn from
    applied     \* the number of events given to update since the last frame

vars == <<state, prev, ev, outcome, cause, pc, result, screen, restored,
          drawn, applied>>

sessionVars == <<state, prev, ev, outcome, cause>>
hostVars    == <<pc, result, screen, restored, drawn, applied>>

---------------------------------------------------------------------------
(* Bounds *)

\* A typed buffer may run at most this many characters past its longest
\* common prefix with the reference text.
MaxExtra == 2

---------------------------------------------------------------------------
(* Strings *)

\* "The quick brown fox jumped over the lazy dog."
Sentence ==
    << "T", "h", "e", " ", "q", "u", "i", "c", "k", " ", "b",
       "r", "o", "w", "n", " ", "f", "o", "x", " ", "j", "u",
       "m", "p", "e", "d", " ", "o", "v", "e", "r", " ", "t",
       "h", "e", " ", "l", "a", "z", "y", " ", "d", "o", "g",
       "." >>

Min(a, b) == IF a <= b THEN a ELSE b

\* Length of the longest common prefix of two strings.
CommonPrefixLen(a, b) ==
    LET n == Min(Len(a), Len(b))
        bad == {i \in 1..n : a[i] # b[i]}
    IN  IF bad = {} THEN n
        ELSE CHOOSE i \in 0..n : (i + 1) \in bad /\ \A j \in bad : j > i

\* String::pop on a non-empty string: all but the last character.
Front(s) == SubSeq(s, 1, Len(s) - 1)

---------------------------------------------------------------------------
(* State values *)

StartState == [tag |-> "Start",   text |-> <<>>, input |-> <<>>]
DoneState  == [tag |-> "Done",    text |-> <<>>, input |-> <<>>]
ExitState  == [tag |-> "Exit",    text |-> <<>>, input |-> <<>>]
\* No State value: nothing has been drawn yet.
NoState    == [tag |-> "None",    text |-> <<>>, input |-> <<>>]
Running(text, input) == [tag |-> "Running", text |-> text, input |-> input]

Tags == {"Start", "Running", "Done", "Exit"}

---------------------------------------------------------------------------
(* Events *)

Modifiers == {"SHIFT", "CONTROL"}
ModifierSets == SUBSET Modifiers
Kinds == {"Press", "Release"}
OtherCodes == {"Esc", "Backspace", "Enter"}

\* Characters a key event may carry whatever the session holds.
FixedChars == {"s", "c", "C"}

KeyEvent(code, ch, modifiers, kind) ==
    [type |-> "Key", code |-> code, ch |-> ch, modifiers |-> modifiers, kind |-> kind]

NonKeyEvent(type) ==
    [type |-> type, code |-> "None", ch |-> "", modifiers |-> {}, kind |-> "None"]

NoEvent == NonKeyEvent("None")

\* The character that continues the typed buffer along the reference text.
NextChars(s) ==
    IF s.tag = "Running" /\ Len(s.input) < Len(s.text)
    THEN {s.text[Len(s.input) + 1]}
    ELSE {}

\* The events the terminal may deliver while the session holds s.
Events(s) ==
    {KeyEvent("Char", ch, m, k) :
        ch \in FixedChars \cup NextChars(s), m \in ModifierSets, k \in Kinds}
    \cup {KeyEvent(c, "", m, k) : c \in OtherCodes, m \in ModifierSets, k \in Kinds}
    \cup {NonKeyEvent("Mouse"), NonKeyEvent("Resize")}

---------------------------------------------------------------------------
(* impl State *)

\* The result of a call: the State value it leaves, whether it panicked and
\* at which macro.
Ok(s)         == [state |-> s, panic |-> FALSE, why |-> "none"]
Panic(s, why) == [state |-> s, panic |-> TRUE,  why |-> why]

\* The quit match with key.modifiers.contains(KeyModifiers::CONTROL).
IsQuitKey_contains(key) ==
    \/ key.code = "Esc"
    \/ /\ "CONTROL" \in key.modifiers
       /\ key.code = "Char"
       /\ key.ch \in {"c", "C"}

\* The first match of on_key_event: is this a quit key?
IsQuitKey(key) ==
    \/ key.code = "Esc"
    \/ /\ key.modifiers = {"CONTROL"}
       /\ key.code = "Char"
       /\ key.ch \in {"c", "C"}

quit(s) == ExitState

\* append_char pushing onto the reference text.
append_char_text(s, ch) ==
    IF s.tag = "Running"
    THEN Ok([s EXCEPT !.text = Append(@, ch)])
    ELSE Panic(s, "unreachable")

\* append_char as input.insert(0, ch).
append_char_front(s, ch) ==
    IF s.tag = "Running"
    THEN Ok([s EXCEPT !.input = << ch >> \o @])
    ELSE Panic(s, "unreachable")

append_char(s, ch) ==
    IF s.tag = "Running"
    THEN Ok([s EXCEPT !.input = Append(@, ch)])
    ELSE Panic(s, "unreachable")                    \* unreachable!()

\* pop_char as input.remove(0) on a non-empty buffer.
pop_char_first(s) ==
    IF s.tag = "Running"
    THEN Ok([s EXCEPT !.input = IF @ = <<>> THEN <<>> ELSE Tail(@)])
    ELSE Panic(s, "unreachable")

\* pop_char as input.truncate(input.len() - 1): underflows on an empty buffer.
pop_char_underflow(s) ==
    IF s.tag = "Running" /\ s.input # <<>>
    THEN Ok([s EXCEPT !.input = Front(@)])
    ELSE Panic(s, "underflow")

pop_char(s) ==
    IF s.tag = "Running"
    THEN Ok([s EXCEPT !.input = IF @ = <<>> THEN <<>> ELSE Front(@)])
    ELSE Panic(s, "unreachable")                    \* unreachable!()

\* The value Start or Done is replaced by on the start key.
NewRunning == Running(Sentence, <<>>)

\* The arm with the pattern State::Start alone: Done has no restart.
StartOnlyArm(s, key) ==
    IF s.tag = "Start" /\ key.code = "Char" /\ key.ch = "s"
    THEN Ok(NewRunning)
    ELSE Ok(s)

\* The arm State::Start | State::Done.
StartOrDoneArm(s, key) ==
    IF key.code = "Char" /\ key.ch = "s" THEN Ok(NewRunning) ELSE Ok(s)

\* The Running arm with the start key restarting the test.
RunningArm_restart(s, key) ==
    CASE key.code = "Backspace"              -> pop_char(s)
      [] key.code = "Char" /\ key.ch = "s"   -> Ok(NewRunning)
      [] key.code = "Char" /\ key.ch # "s"   -> append_char(s, key.ch)
      [] OTHER                               -> Ok(s)

\* The Running arm with Enter typed as a character.
RunningArm_enter(s, key) ==
    CASE key.code = "Backspace" -> pop_char(s)
      [] key.code = "Char"      -> append_char(s, key.ch)
      [] key.code = "Enter"     -> append_char(s, "\n")
      [] OTHER                  -> Ok(s)

\* The arm State::Running { .. }.
RunningArm(s, key) ==
    CASE key.code = "Backspace" -> pop_char(s)
      [] key.code = "Char"      -> append_char(s, key.ch)
      [] OTHER                  -> Ok(s)

\* The arm State::Exit => todo!().
ExitArm(s, key) == Panic(s, "todo")

\* on_key_event choosing the arm by the state it was called in, not by the
\* state the quit match left.
on_key_event_stale(s, key) ==
    LET s1 == IF IsQuitKey(key) THEN quit(s) ELSE s
    IN  CASE s.tag \in {"Start", "Done"} -> StartOrDoneArm(s1, key)
          [] s.tag = "Running"           -> RunningArm(s1, key)
          [] s.tag = "Exit"              -> ExitArm(s1, key)

on_key_event(s, key) ==
    LET s1 == IF IsQuitKey(key) THEN quit(s) ELSE s
    IN  CASE s1.tag \in {"Start", "Done"} -> StartOrDoneArm(s1, key)
          [] s1.tag = "Running"           -> RunningArm(s1, key)
          [] s1.tag = "Exit"              -> ExitArm(s1, key)

\* check_complete comparing the lengths only.
check_complete_len(s) ==
    IF s.tag = "Running" /\ Len(s.text) = Len(s.input) THEN DoneState ELSE s

check_complete(s) ==
    IF s.tag = "Running" /\ s.text = s.input THEN DoneState ELSE s

\* update without the call of check_complete.
update_nocheck(s, e) ==
    IF e.type = "Key" THEN on_key_event(s, e) ELSE Ok(s)

update(s, e) ==
    LET r == IF e.type = "Key" THEN on_key_event(s, e) ELSE Ok(s)
    IN  IF r.panic THEN r ELSE Ok(check_complete(r.state))

\* How far the typed buffer of s runs past the reference text.
Extra(s) ==
    IF s.tag = "Running"
    THEN Len(s.input) - CommonPrefixLen(s.input, s.text)
    ELSE 0

---------------------------------------------------------------------------
(* Spec: calls of State::update *)

Init ==
    /\ state = StartState
    /\ prev = StartState
    /\ ev = NoEvent
    /\ outcome = "none"
    /\ cause = "none"
    /\ pc = "while"
    /\ result = "none"
    /\ screen = <<>>
    /\ restored = FALSE
    /\ drawn = NoState
    /\ applied = 0

Update ==
    \E e \in Events(state) :
        LET r == update(state, e)
        IN  /\ Extra(r.state) <= MaxExtra
            /\ state' = r.state
            /\ prev' = state
            /\ ev' = e
            /\ outcome' = IF r.panic THEN "panic" ELSE "ok"
            /\ cause' = r.why
            /\ UNCHANGED hostVars

Next == Update

Spec == Init /\ [][Next]_vars

---------------------------------------------------------------------------
(* State::draw: the lines handed to the renderer *)

\* "Press 's' to start the test"
StartLine ==
    << "P", "r", "e", "s", "s", " ", "'", "s", "'", " ", "t", "o",
       " ", "s", "t", "a", "r", "t", " ", "t", "h", "e", " ", "t",
       "e", "s", "t" >>

\* "Done!"
DoneLine ==
    << "D", "o", "n", "e", "!" >>

\* "Press 's' to restart the test"
RestartLine ==
    << "P", "r", "e", "s", "s", " ", "'", "s", "'", " ", "t", "o",
       " ", "r", "e", "s", "t", "a", "r", "t", " ", "t", "h", "e",
       " ", "t", "e", "s", "t" >>

\* draw with the typed line above the reference line.
draw_swapped(s) ==
    CASE s.tag = "Start"   -> << StartLine >>
      [] s.tag = "Running" -> << s.input, s.text >>
      [] s.tag = "Done"    -> << DoneLine, RestartLine >>
      [] s.tag = "Exit"    -> << >>

draw(s) ==
    CASE s.tag = "Start"   -> << StartLine >>
      [] s.tag = "Running" -> << s.text, s.input >>
      [] s.tag = "Done"    -> << DoneLine, RestartLine >>
      [] s.tag = "Exit"    -> << >>

---------------------------------------------------------------------------
(* RunSpec: main and App::run *)

\* while self.state != State::Exit
LoopTest ==
    /\ pc = "while"
    /\ IF state # ExitState
       THEN pc' = "draw" /\ UNCHANGED result
       ELSE pc' = "return" /\ result' = "Ok"
    /\ UNCHANGED <<sessionVars, screen, restored, drawn, applied>>

\* terminal.draw(|frame| self.state.draw(frame))? succeeds
Draw ==
    /\ pc = "draw"
    /\ screen' = draw(state)
    /\ drawn' = state
    /\ applied' = 0
    /\ pc' = "read"
    /\ UNCHANGED <<sessionVars, result, restored>>

\* terminal.draw(..)? returns an error, which run returns
DrawFails ==
    /\ pc = "draw"
    /\ result' = "DrawErr"
    /\ pc' = "return"
    /\ UNCHANGED <<sessionVars, screen, restored, drawn, applied>>

\* event::read()? returns an event
Read ==
    /\ pc = "read"
    /\ \E e \in Events(state) :
          /\ Extra(update(state, e).state) <= MaxExtra
          /\ ev' = e
    /\ prev' = state
    /\ outcome' = "none"
    /\ cause' = "none"
    /\ pc' = "update"
    /\ UNCHANGED <<state, result, screen, restored, drawn, applied>>

\* event::read()? returns an error, which run returns
ReadFails ==
    /\ pc = "read"
    /\ result' = "ReadErr"
    /\ pc' = "return"
    /\ UNCHANGED <<sessionVars, screen, restored, drawn, applied>>

\* The loop with the frame drawn once, before it: after update the next
\* event is read without a new frame.
CallUpdate_noredraw ==
    /\ pc = "update"
    /\ LET r == update(state, ev)
       IN  /\ state' = r.state
           /\ outcome' = IF r.panic THEN "panic" ELSE "ok"
           /\ cause' = r.why
           /\ pc' = IF r.panic THEN "panic"
                    ELSE IF r.state = ExitState THEN "while" ELSE "read"
    /\ applied' = applied + 1
    /\ UNCHANGED <<prev, ev, result, screen, restored, drawn>>

\* self.state.update(event)?  A panic unwinds out of run and main.
CallUpdate ==
    /\ pc = "update"
    /\ LET r == update(state, ev)
       IN  /\ state' = r.state
           /\ outcome' = IF r.panic THEN "panic" ELSE "ok"
           /\ cause' = r.why
           /\ pc' = IF r.panic THEN "panic" ELSE "while"
    /\ applied' = applied + 1
    /\ UNCHANGED <<prev, ev, result, screen, restored, drawn>>

\* main as `App::new().run(terminal)?; ratatui::restore(); Ok(())`: an
\* error leaves main before the terminal is restored.
Restore_question_mark ==
    /\ pc = "return"
    /\ restored' = (result = "Ok")
    /\ pc' = "exit"
    /\ UNCHANGED <<sessionVars, result, screen, drawn, applied>>

\* main: ratatui::restore(); result
Restore ==
    /\ pc = "return"
    /\ restored' = TRUE
    /\ pc' = "exit"
    /\ UNCHANGED <<sessionVars, result, screen, drawn, applied>>

RunNext ==
    \/ LoopTest
    \/ Draw
    \/ DrawFails
    \/ Read
    \/ ReadFails
    \/ CallUpdate
    \/ Restore

RunSpec == Init /\ [][RunNext]_vars

---------------------------------------------------------------------------
(* Properties of State::update, checked under Spec *)

\* The errors run can return: the renderer's and the event source's.
Errors == {"DrawErr", "ReadErr"}

\* update has been called: prev, ev, state and outcome describe that call.
Called == outcome # "none"

IsKey(e) == e.type = "Key"

IsCharKey(e, ch) == e.type = "Key" /\ e.code = "Char" /\ e.ch = ch

\* Escape, Control+c, Control+C.
QuitKey(e) ==
    /\ e.type = "Key"
    /\ \/ e.code = "Esc"
       \/ e.code = "Char" /\ e.ch \in {"c", "C"} /\ e.modifiers = {"CONTROL"}

\* Mouse, resize and key-release events.
OtherEvent(e) ==
    \/ e.type \in {"Mouse", "Resize"}
    \/ e.type = "Key" /\ e.kind = "Release"

\* The typed buffer of s after the typing rule for e: a character key appends
\* its character, Backspace removes the last character if there is one.
TypedAfter(s, e) ==
    CASE e.type = "Key" /\ e.code = "Char" -> s.input \o << e.ch >>
      [] e.type = "Key" /\ e.code = "Backspace" /\ s.input # <<>> ->
            SubSeq(s.input, 1, Len(s.input) - 1)
      [] OTHER -> s.input

\* C1: from Start, Running or Done, one update with a quit key (Escape,
\* Control+c, Control+C) returns normally and leaves the session in Exit.
C1_QuitFromAnyState ==
    (Called /\ prev.tag \in {"Start", "Running", "Done"}
        /\ QuitKey(ev) /\ ev.kind = "Press")
    => (outcome = "ok" /\ state = ExitState)

\* C2: Exit is absorbing: an update of a session in Exit, with any event,
\* returns normally and leaves the session in Exit.
C2_ExitAbsorbing ==
    (Called /\ prev.tag = "Exit") => (outcome = "ok" /\ state = ExitState)

\* C3: an update of a Running session ends in Done if and only if the typed
\* buffer after the update's mutation equals the reference text; otherwise
\* (proper prefix, divergent character, longer than the reference) the
\* session stays Running with that buffer.  A Running session never holds a
\* typed buffer equal to its reference.
C3_CompletionExact ==
    /\ (Called /\ prev.tag = "Running") =>
          /\ state.tag = "Done" <=>
                (~QuitKey(ev) /\ TypedAfter(prev, ev) = prev.text)
          /\ (~QuitKey(ev) /\ TypedAfter(prev, ev) # prev.text) =>
                (outcome = "ok" /\ state = Running(prev.text, TypedAfter(prev, ev)))
    /\ state.tag = "Running" => state.input # state.text

\* C3 witness: the reference typed up to its last character, and the last
\* character completing it.
C3_Witness ==
    /\ Called
    /\ prev = Running(Sentence, SubSeq(Sentence, 1, Len(Sentence) - 1))
    /\ IsCharKey(ev, ".")
    /\ state = DoneState

\* C4: from Start or Done, an update with the character key 's' gives
\* Running with an empty typed buffer and the fixed sentence as reference.
C4_StartResets ==
    (Called /\ prev.tag \in {"Start", "Done"} /\ IsCharKey(ev, "s"))
    => (outcome = "ok" /\ state = Running(Sentence, << >>))

\* C4 witness: a restart from Done, that is after a completed episode.
C4_Witness ==
    /\ Called
    /\ prev = DoneState
    /\ IsCharKey(ev, "s") /\ ev.kind = "Press"
    /\ state = Running(Sentence, << >>)

\* C5 as stated: the start key 's' pressed while Running changes nothing.
C5_StartIgnoredWhileRunning ==
    (Called /\ prev.tag = "Running" /\ IsCharKey(ev, "s") /\ ev.kind = "Press")
    => (outcome = "ok" /\ state = prev)

\* C5 amended: the start key 's' pressed while Running does not restart the
\* test: the session stays Running with the same reference, and 's' is
\* appended to the typed buffer as any other character is.
C5_StartKeyTypedWhileRunning ==
    (Called /\ prev.tag = "Running" /\ IsCharKey(ev, "s") /\ ev.kind = "Press")
    => (outcome = "ok" /\ state = Running(prev.text, prev.input \o << "s" >>))

\* C5 witness: 's' pressed in the middle of an episode.
C5_Witness ==
    /\ Called
    /\ prev = Running(Sentence, << "T", "h", "e" >>)
    /\ IsCharKey(ev, "s") /\ ev.kind = "Press"
    /\ state = Running(Sentence, << "T", "h", "e", "s" >>)

\* C6: Backspace in Running returns normally and keeps the session Running
\* with the same reference; an empty typed buffer stays empty, a non-empty
\* one loses exactly its last character.
C6_Backspace ==
    (Called /\ prev.tag = "Running" /\ IsKey(ev) /\ ev.code = "Backspace")
    => /\ outcome = "ok"
       /\ state.tag = "Running"
       /\ state.text = prev.text
       /\ IF prev.input = << >>
          THEN state.input = << >>
          ELSE /\ Len(state.input) = Len(prev.input) - 1
               /\ \A i \in 1..Len(state.input) : state.input[i] = prev.input[i]

\* C6 witness: Backspace on the empty buffer.
C6_Witness ==
    /\ Called
    /\ prev = Running(Sentence, << >>)
    /\ IsKey(ev) /\ ev.code = "Backspace" /\ ev.kind = "Press"
    /\ outcome = "ok"
    /\ state = prev

\* C7: update never fails: no call of it panics.
C7_UpdateNeverFails == outcome # "panic"

\* C9: mouse, resize and key-release events are ignored in every state.
C9_OtherEventsIgnored ==
    (Called /\ OtherEvent(ev)) => (outcome = "ok" /\ state = prev)

\* A key event no rule applies to in s.
NoRule(s, e) ==
    /\ e.type = "Key"
    /\ ~QuitKey(e)
    /\ \/ s.tag \in {"Start", "Done"} /\ ~IsCharKey(e, "s")
       \/ s.tag = "Running" /\ e.code \notin {"Char", "Backspace"}

\* C10: in Start, Running and Done a key with no applicable rule leaves the
\* session as it was, and so does the same key applied again.
C10_NoRuleNoChange ==
    (Called /\ NoRule(prev, ev))
    => /\ outcome = "ok"
       /\ state = prev
       /\ update(state, ev) = Ok(state)

\* C10 witness: Enter pressed in the middle of an episode.
C10_Witness ==
    /\ Called
    /\ prev = Running(Sentence, << "T", "h" >>)
    /\ IsKey(ev) /\ ev.code = "Enter" /\ ev.kind = "Press"
    /\ state = prev

---------------------------------------------------------------------------
(* Properties of App::run, checked under RunSpec *)

\* C8: once a quit key has been read and given to update, and neither the
\* renderer nor the event source has failed, the loop test sees Exit and run
\* returns Ok; run returns Ok in no other way.
C8_QuitEndsRun ==
    /\ (QuitKey(ev) /\ ev.kind = "Press" /\ pc # "update" /\ result \notin Errors)
          => (pc \in {"while", "return", "exit"} /\ state = ExitState)
    /\ result = "Ok" => (state = ExitState /\ QuitKey(ev))

\* The lines l are the projection of the State value s: one line in Start,
\* the reference then the typed text in Running, two lines in Done, none in
\* Exit.
Shows(l, s) ==
    CASE s.tag = "Start"   -> Len(l) = 1 /\ l[1] = StartLine
      [] s.tag = "Running" -> Len(l) = 2 /\ l[1] = s.text /\ l[2] = s.input
      [] s.tag = "Done"    -> Len(l) = 2 /\ l[1] = DoneLine /\ l[2] = RestartLine
      [] s.tag = "Exit"    -> Len(l) = 0

\* C11: State::draw projects every State value the run reaches onto its
\* lines (Start one line, Running the reference and then the typed text,
\* Done two lines, Exit none), and a frame drawn by the loop shows these lines
\* and leaves the State value as it was.
C11_RenderProjection ==
    /\ [](Shows(draw(state), state))
    /\ [][(pc = "draw" /\ pc' = "read")
            => (state' = state /\ Shows(screen', state))]_vars

\* C11 witness: a frame drawn in the middle of an episode.
C11_Witness ==
    /\ pc = "read"
    /\ state = Running(Sentence, << "T", "h" >>)
    /\ screen = << Sentence, << "T", "h" >> >>

\* C12: a failing draw or read ends the loop at once: that step changes
\* neither the session nor the screen, run returns the error of the
\* collaborator that failed, nothing is drawn, read or applied afterwards,
\* and main has restored the terminal when it returns the error.
C12_FailurePropagates ==
    /\ [][/\ (pc = "draw" /\ pc' = "return") => result' = "DrawErr"
          /\ (pc = "read" /\ pc' = "return") => result' = "ReadErr"
          /\ result' \in Errors =>
                /\ pc' \in {"return", "exit"}
                /\ UNCHANGED <<state, prev, ev, outcome, screen, drawn, applied>>
          /\ result \in Errors => result' = result]_vars
    /\ []((pc = "exit" /\ result \in Errors) => restored)

\* C12 witness: the event source failed in the middle of an episode and
\* main has returned its error with the terminal restored.
C12_Witness ==
    /\ pc = "exit"
    /\ result = "ReadErr"
    /\ restored
    /\ state = Running(Sentence, << "T", "h" >>)
    /\ screen = draw(state)

---------------------------------------------------------------------------
(* Further properties of State::update, checked under Spec *)

\* C13: a Running session always holds the fixed sentence as reference; an
\* update that starts and ends in Running keeps the reference; and a session
\* enters Running only from Start or Done on the key 's', with the reference
\* set to the fixed sentence.
C13_ReferenceFixed ==
    /\ state.tag = "Running" => state.text = Sentence
    /\ (Called /\ prev.tag = "Running" /\ state.tag = "Running")
          => state.text = prev.text
    /\ (Called /\ prev.tag # "Running" /\ state.tag = "Running")
          => /\ prev.tag \in {"Start", "Done"}
             /\ IsCharKey(ev, "s")
             /\ state = Running(Sentence, << >>)

\* C13 witness: a character typed in the middle of an episode, the reference
\* still the fixed sentence.
C13_Witness ==
    /\ Called
    /\ prev = Running(Sentence, << "T" >>)
    /\ IsCharKey(ev, "h")
    /\ state = Running(Sentence, << "T", "h" >>)

\* C14: across an update that starts and ends in Running the typed buffer is
\* unchanged, or has the character of the character key appended at its end,
\* or (Backspace) has lost exactly its last character.
C14_SingleCharacterEdits ==
    (Called /\ prev.tag = "Running" /\ state.tag = "Running")
    => \/ state.input = prev.input
       \/ /\ IsKey(ev) /\ ev.code = "Char"
          /\ state.input = prev.input \o << ev.ch >>
       \/ /\ IsKey(ev) /\ ev.code = "Backspace"
          /\ prev.input # << >>
          /\ state.input = SubSeq(prev.input, 1, Len(prev.input) - 1)

\* C14 witness: "The" typed character by character, at its last character.
C14_Witness ==
    /\ Called
    /\ prev = Running(Sentence, << "T", "h" >>)
    /\ IsCharKey(ev, "e") /\ ev.kind = "Press"
    /\ state = Running(Sentence, << "T", "h", "e" >>)

\* C15: from Running with typed buffer T, a character key c (no quit key)
\* with T followed by c different from the reference, and then Backspace,
\* leave the session Running with typed buffer T and the same reference.
C15_AppendRemoveRoundTrip ==
    [][(/\ Called /\ prev.tag = "Running"
        /\ IsKey(ev) /\ ev.code = "Char" /\ ~QuitKey(ev)
        /\ prev.input \o << ev.ch >> # prev.text
        /\ IsKey(ev') /\ ev'.code = "Backspace"
        /\ prev' = state)
       => (outcome' = "ok" /\ state' = Running(prev.text, prev.input))]_vars

\* C15 witness: Backspace has just removed a mistyped 's' after "Th".
C15_Witness ==
    /\ Called
    /\ prev = Running(Sentence, << "T", "h", "s" >>)
    /\ IsKey(ev) /\ ev.code = "Backspace" /\ ev.kind = "Press"
    /\ state = Running(Sentence, << "T", "h" >>)

\* C17: no call of update stops at unreachable!(): append_char and pop_char
\* are reached in Running only; a call that panics stopped at todo!(), in
\* Exit.
C17_FallbacksUnreachable ==
    /\ cause # "unreachable"
    /\ outcome = "panic" => (cause = "todo" /\ state = ExitState)

\* C17 witness: Control+c, a character key that is also a quit key, given to
\* a Running session: append_char is not reached.
C17_Witness ==
    /\ Called
    /\ prev.tag = "Running" /\ prev.input # << >>
    /\ IsCharKey(ev, "c") /\ ev.modifiers = {"CONTROL"}
    /\ cause = "todo"

\* C19: Escape is a quit key under every modifier set; c and C are quit keys
\* under exactly {CONTROL}; under any other modifier set, and any other
\* character under any modifier set, a character key is typing: in Running
\* its character is appended, in Start and Done it starts a test if it is
\* 's' and is ignored otherwise.
C19_QuitClassification ==
    (Called /\ IsKey(ev) /\ prev.tag \in {"Start", "Running", "Done"})
    => /\ ev.code = "Esc" => state = ExitState
       /\ (ev.code = "Char" /\ ev.ch \in {"c", "C"} /\ ev.modifiers = {"CONTROL"})
             => state = ExitState
       /\ (ev.code = "Char" /\ ~(ev.ch \in {"c", "C"} /\ ev.modifiers = {"CONTROL"}))
             => /\ outcome = "ok"
                /\ prev.tag = "Running" =>
                      state = IF prev.input \o << ev.ch >> = prev.text
                              THEN DoneState
                              ELSE Running(prev.text, prev.input \o << ev.ch >>)
                /\ prev.tag \in {"Start", "Done"} =>
                      state = IF ev.ch = "s" THEN Running(Sentence, << >>) ELSE prev

\* C19 witness: Control+Shift+C typed into a Running session.
C19_Witness ==
    /\ Called
    /\ prev = Running(Sentence, << "T" >>)
    /\ IsCharKey(ev, "C") /\ ev.modifiers = {"CONTROL", "SHIFT"}
    /\ state = Running(Sentence, << "T", "C" >>)

---------------------------------------------------------------------------
(* Further properties of App::run, checked under RunSpec *)

\* C16: the loop draws, reads, applies, tests, in this order: an event is
\* read and applied only with the current State value on the screen and
\* none applied since that frame; a frame is drawn with exactly one event
\* applied since the frame before it (none before the first frame); and no
\* frame is drawn from Exit.
C16_LoopOrdering ==
    /\ drawn # ExitState
    /\ pc \in {"read", "update"} =>
          (drawn = state /\ applied = 0 /\ screen = draw(state))
    /\ pc \in {"while", "draw"} =>
          \/ drawn = NoState /\ applied = 0 /\ ~Called
          \/ drawn = prev /\ applied = 1 /\ outcome = "ok"
    /\ pc = "draw" => state # ExitState
    /\ applied <= 1

\* C16 witness: the first character of an episode has been applied and the
\* loop is about to draw the State value it produced.
C16_Witness ==
    /\ pc = "draw"
    /\ applied = 1
    /\ drawn = Running(Sentence, << >>)
    /\ state = Running(Sentence, << "T" >>)

\* C18: wherever the loop observes the session (the loop test, the frame, the
\* read) it is never Running with the typed buffer equal to the reference:
\* a completed text is seen as Done.
C18_MatchSeenAsDone ==
    /\ pc \in {"while", "draw", "read"} =>
          ~(state.tag = "Running" /\ state.input = state.text)
    /\ pc \in {"read", "update"} =>
          ~(Len(screen) = 2 /\ screen[1] = Sentence /\ screen[2] = Sentence)
    /\ (pc = "while" /\ Called /\ prev.tag = "Running"
          /\ TypedAfter(prev, ev) = prev.text) => state = DoneState

\* C18 witness: the last character has completed the text and the frame
\* drawn after it is the one of Done.
C18_Witness ==
    /\ pc = "read"
    /\ prev = Running(Sentence, SubSeq(Sentence, 1, Len(Sentence) - 1))
    /\ state = DoneState
    /\ screen = << DoneLine, RestartLine >>

===========================================================================
